---- MODULE Spec2Model ----
(***************************************************************************)
(* A model of jux's Unit record (src/jux/unit.py): the per-tick            *)
(* operations next_action, repeat_action, add_resource, sub_resource and   *)
(* gain_power on one unit, over a small configuration table and a small    *)
(* action queue.                                                           *)
(*                                                                         *)
(* Unit is a NamedTuple: every operation returns a new value.  The model   *)
(* keeps the current value in `unit` and the last call, with its inputs    *)
(* and its return value, in `op`.                                          *)
(*                                                                         *)
(* ActionQueue, UnitAction, UnitCargo, ResourceType, Position and the      *)
(* configuration table live in other modules of the package (jux.actions,  *)
(* jux.unit_cargo, jux.config, jux.map.position).  Their definitions here  *)
(* follow sections 3, 4.1 and 4.2 of the design document.                  *)
(***************************************************************************)
EXTENDS Integers, Sequences, FiniteSets, TLC

(***************************************************************************)
(* Bounds of the model.                                                    *)
(***************************************************************************)
\* env_cfg.UNIT_ACTION_QUEUE_SIZE: the capacity C of every action queue.
QueueCap == 3

\* Entries are queued with a repeat counter in -1..MaxRepeat.
MaxRepeat == 1

\* Requested resource amounts range over -MaxAmount..MaxAmount; power and
\* cargo are explored up to MaxAmount beyond either end of their range.
MaxAmount == 2

\* At most MaxCalls per-tick calls are made on the units of a population.
MaxCalls == 4

(***************************************************************************)
(* Enumerations and the configuration table.                               *)
(***************************************************************************)
LIGHT == 0
HEAVY == 1
UnitType == {LIGHT, HEAVY}

\* jux.unit_cargo.ResourceType: four cargo resources, then power.
ice == 0
ore == 1
water == 2
metal == 3
power == 4
CargoResources == {ice, ore, water, metal}
ResourceType == CargoResources \cup {power}

\* env_cfg.ROBOTS: the per-class constants the operations read.
ROBOTS ==
    [t \in UnitType |->
        IF t = LIGHT
        THEN [CARGO_SPACE |-> 2, BATTERY_CAPACITY |-> 3, CHARGE |-> 1, INIT_POWER |-> 1,
              MOVE_COST |-> 1, RUBBLE_MOVEMENT_COST |-> 1]
        ELSE [CARGO_SPACE |-> 3, BATTERY_CAPACITY |-> 4, CHARGE |-> 3, INIT_POWER |-> 2,
              MOVE_COST |-> 2, RUBBLE_MOVEMENT_COST |-> 1]]

\* Position(): the origin.
Position == <<0, 0>>

(***************************************************************************)
(* UnitAction and ActionQueue (design document, section 4.2).              *)
(***************************************************************************)
DO_NOTHING == -1
MOVE == 0
DIG == 3

\* UnitAction.do_nothing(): kind = no-op, repeat = 0.
do_nothing ==
    [action_type |-> DO_NOTHING, direction |-> 0, resource_type |-> 0,
     amount |-> 0, repeat |-> 0]

Slots == 0 .. (QueueCap - 1)

\* ActionQueue.empty(capacity): C do-nothing slots, f = 0, n = 0.
empty == [data |-> [i \in Slots |-> do_nothing], front |-> 0, count |-> 0]

is_empty(q) == q.count = 0

\* peek(): slot[f] if n > 0, else the do-nothing entry.
peek(q) == IF q.count > 0 THEN q.data[q.front] ELSE do_nothing

\* pop(): nothing when n = 0; else f = (f + 1) mod C, n -= 1.  The slot keeps
\* its data.
pop(q) ==
    IF q.count = 0
    THEN [act |-> do_nothing, queue |-> q]
    ELSE [act |-> q.data[q.front],
          queue |-> [q EXCEPT !.front = (q.front + 1) % QueueCap,
                              !.count = q.count - 1]]

\* push_back(entry): dropped when n = C; else written at (f + n) mod C.
push_back(q, act) ==
    IF q.count = QueueCap
    THEN q
    ELSE [q EXCEPT !.data[(q.front + q.count) % QueueCap] = act,
                   !.count = q.count + 1]

\* The queue's entries in front-to-back order.
QueueList(q) == [i \in 1 .. q.count |-> q.data[(q.front + i - 1) % QueueCap]]

(***************************************************************************)
(* UnitCargo (design document, section 4.1): stock per cargo resource.     *)
(***************************************************************************)
UnitCargo == [r \in CargoResources |-> 0]

RECURSIVE SumStock(_, _)
SumStock(stock, rs) ==
    IF rs = {} THEN 0
    ELSE LET r == CHOOSE x \in rs : TRUE
         IN  stock[r] + SumStock(stock, rs \ {r})

TotalCargo(cargo) == SumStock(cargo, CargoResources)

Min(a, b) == IF a < b THEN a ELSE b
Max(a, b) == IF a > b THEN a ELSE b

\* UnitCargo.add_resource: transfer = min(cargo_space - total, amount).
cargo_add_resource(cargo, resource, amount, space) ==
    LET transfer_amount == Min(space - TotalCargo(cargo), amount)
    IN  [cargo |-> [cargo EXCEPT ![resource] = @ + transfer_amount],
         transfer |-> transfer_amount]

\* UnitCargo.sub_resource: transfer = min(available, amount).
cargo_sub_resource(cargo, resource, amount) ==
    LET transfer_amount == Min(cargo[resource], amount)
    IN  [cargo |-> [cargo EXCEPT ![resource] = @ - transfer_amount],
         transfer |-> transfer_amount]

(***************************************************************************)
(* Unit (src/jux/unit.py).                                                 *)
(***************************************************************************)
\* jax.lax.switch clamps its index into the range of its branches.
SwitchIndex(i, n) == Max(0, Min(i, n - 1))

new(team_id, unit_type, unit_id) ==
    LET unit_cfg == ROBOTS[SwitchIndex(unit_type, 2)]
    IN  [unit_type    |-> unit_type,
         team_id      |-> team_id,
         unit_id      |-> unit_id,
         pos          |-> Position,
         cargo        |-> UnitCargo,
         action_queue |-> empty,
         unit_cfg     |-> unit_cfg,
         power        |-> unit_cfg.INIT_POWER]

cargo_space(u) == u.unit_cfg.CARGO_SPACE

battery_capacity(u) == u.unit_cfg.BATTERY_CAPACITY

\* A variant of next_action that trusts the front slot of an empty queue.
next_action_unguarded(u) == u.action_queue.data[u.action_queue.front]

next_action(u) ==
    LET act == peek(u.action_queue)
    IN  IF is_empty(u.action_queue) THEN do_nothing ELSE act

\* A variant of _repeat_minus_one that decrements slot 0, not the front slot.
_repeat_minus_one_slot0(action_queue) ==
    [action_queue EXCEPT !.data[0].repeat = @ - 1]

_repeat_minus_one(action_queue) ==
    [action_queue EXCEPT !.data[action_queue.front].repeat = @ - 1]

\* A variant of _pop_and_push_back that pushes the front entry without
\* popping it.
_push_back_without_pop(action_queue) ==
    push_back(action_queue, peek(action_queue))

\* A variant of _pop_and_push_back that pushes before it pops.
_push_back_and_pop(action_queue) ==
    pop(push_back(action_queue, peek(action_queue))).queue

_pop_and_push_back(action_queue) ==
    LET popped == pop(action_queue)
    IN  push_back(popped.queue, popped.act)

\* A variant of _repeat_action whose branch index is
\* repeat_minus_one + pop_and_push_back, without the factor 2.
_repeat_action_unscaled(u) ==
    LET act == peek(u.action_queue)
        repeat_minus_one == IF act.repeat > 0 THEN 1 ELSE 0
        pop_and_push_back == IF act.repeat < 0 THEN 1 ELSE 0
        branch == SwitchIndex(repeat_minus_one + pop_and_push_back, 3)
        action_queue ==
            CASE branch = 0 -> pop(u.action_queue).queue
              [] branch = 1 -> _repeat_minus_one(u.action_queue)
              [] branch = 2 -> _pop_and_push_back(u.action_queue)
    IN  [u EXCEPT !.action_queue = action_queue]

\* A variant of _repeat_action whose branch 0 requeues the entry.
_repeat_action_requeue_zero(u) ==
    LET act == peek(u.action_queue)
        repeat_minus_one == IF act.repeat > 0 THEN 1 ELSE 0
        pop_and_push_back == IF act.repeat < 0 THEN 1 ELSE 0
        branch == SwitchIndex(repeat_minus_one + pop_and_push_back * 2, 3)
        action_queue ==
            CASE branch = 0 -> _pop_and_push_back(u.action_queue)
              [] branch = 1 -> _repeat_minus_one(u.action_queue)
              [] branch = 2 -> _pop_and_push_back(u.action_queue)
    IN  [u EXCEPT !.action_queue = action_queue]

\* A variant of _repeat_action whose branch 1 pops the entry.
_repeat_action_pop_positive(u) ==
    LET act == peek(u.action_queue)
        repeat_minus_one == IF act.repeat > 0 THEN 1 ELSE 0
        pop_and_push_back == IF act.repeat < 0 THEN 1 ELSE 0
        branch == SwitchIndex(repeat_minus_one + pop_and_push_back * 2, 3)
        action_queue ==
            CASE branch = 0 -> pop(u.action_queue).queue
              [] branch = 1 -> pop(u.action_queue).queue
              [] branch = 2 -> _pop_and_push_back(u.action_queue)
    IN  [u EXCEPT !.action_queue = action_queue]

\* A variant of _repeat_action that decrements when repeat >= 0.
_repeat_action_decrement_zero(u) ==
    LET act == peek(u.action_queue)
        repeat_minus_one == IF act.repeat >= 0 THEN 1 ELSE 0
        pop_and_push_back == IF act.repeat < 0 THEN 1 ELSE 0
        branch == SwitchIndex(repeat_minus_one + pop_and_push_back * 2, 3)
        action_queue ==
            CASE branch = 0 -> pop(u.action_queue).queue
              [] branch = 1 -> _repeat_minus_one(u.action_queue)
              [] branch = 2 -> _pop_and_push_back(u.action_queue)
    IN  [u EXCEPT !.action_queue = action_queue]

_repeat_action(u) ==
    LET act == peek(u.action_queue)
        repeat_minus_one == IF act.repeat > 0 THEN 1 ELSE 0
        pop_and_push_back == IF act.repeat < 0 THEN 1 ELSE 0
        branch == SwitchIndex(repeat_minus_one + pop_and_push_back * 2, 3)
        action_queue ==
            CASE branch = 0 -> pop(u.action_queue).queue
              [] branch = 1 -> _repeat_minus_one(u.action_queue)
              [] branch = 2 -> _pop_and_push_back(u.action_queue)
    IN  [u EXCEPT !.action_queue = action_queue]

\* A variant of repeat_action that does not read success.
repeat_action_any(u, success) ==
    IF ~is_empty(u.action_queue) THEN _repeat_action(u) ELSE u

repeat_action(u, success) ==
    IF success /\ ~is_empty(u.action_queue) THEN _repeat_action(u) ELSE u

\* A variant of add_power that makes room by raising the capacity in the
\* unit's copy of the config.
add_power_raising_capacity(u, resource, amount) ==
    [unit |-> [u EXCEPT !.power = u.power + amount,
                        !.unit_cfg.BATTERY_CAPACITY = Max(@, u.power + amount)],
     transfer |-> amount]

add_power(u, resource, amount) ==
    LET transfer_amount == Min(battery_capacity(u) - u.power, amount)
    IN  [unit |-> [u EXCEPT !.power = u.power + transfer_amount],
         transfer |-> transfer_amount]

add_others(u, resource, amount) ==
    LET r == cargo_add_resource(u.cargo, resource, amount, cargo_space(u))
    IN  [unit |-> [u EXCEPT !.cargo = r.cargo], transfer |-> r.transfer]

add_resource(u, resource, amount) ==
    LET clamped == Max(amount, 0)
    IN  IF resource = power
        THEN add_power(u, resource, clamped)
        ELSE add_others(u, resource, clamped)

\* A variant of sub_power that does not truncate the request.
sub_power_unchecked(u, resource, amount) ==
    [unit |-> [u EXCEPT !.power = u.power - amount], transfer |-> amount]

\* A variant of sub_power that reports the truncated transfer and subtracts
\* the requested amount.
sub_power_by_amount(u, resource, amount) ==
    [unit |-> [u EXCEPT !.power = u.power - amount],
     transfer |-> Min(u.power, amount)]

sub_power(u, resource, amount) ==
    LET transfer_amount == Min(u.power, amount)
    IN  [unit |-> [u EXCEPT !.power = u.power - transfer_amount],
         transfer |-> transfer_amount]

sub_others(u, resource, amount) ==
    LET r == cargo_sub_resource(u.cargo, resource, amount)
    IN  [unit |-> [u EXCEPT !.cargo = r.cargo], transfer |-> r.transfer]

sub_resource(u, resource, amount) ==
    IF resource = power
    THEN sub_power(u, resource, amount)
    ELSE sub_others(u, resource, amount)

\* A variant of CeilDiv that rounds down.
FloorDiv(a, b) == a \div b

\* ceil(a / b) for b > 0.
CeilDiv(a, b) == -((-a) \div b)

\* power_gain_factor is the rational f[1] / f[2].
gain_power(u, f) ==
    LET new_power == u.power + CeilDiv(u.unit_cfg.CHARGE * f[1], f[2])
    IN  [u EXCEPT !.power = Min(new_power, battery_capacity(u))]

is_heavy(u) == u.unit_type = HEAVY

move_power_cost(u, rubble_at_target) ==
    u.unit_cfg.MOVE_COST + u.unit_cfg.RUBBLE_MOVEMENT_COST * rubble_at_target

(***************************************************************************)
(* Construction and the legacy interchange (Unit.new, Unit.empty,          *)
(* Unit.to_lux, Unit.from_lux).  Python strings are sequences of           *)
(* characters; an operation that can raise returns its value together      *)
(* with the name of the exception, "" when none is raised.                 *)
(***************************************************************************)
INT32_MAX == 2147483647

DigitChars == <<"0", "1", "2", "3", "4", "5", "6", "7", "8", "9">>

\* str(n) for a natural number n.
RECURSIVE FormatNat(_)
FormatNat(n) ==
    IF n < 10 THEN <<DigitChars[n + 1]>>
    ELSE FormatNat(n \div 10) \o <<DigitChars[(n % 10) + 1]>>

\* f"{int(n)}"
FormatInt(n) == IF n < 0 THEN <<"-">> \o FormatNat(-n) ELSE FormatNat(n)

DigitValue(c) == CHOOSE d \in 0 .. 9 : DigitChars[d + 1] = c

IsDigit(c) == \E d \in 0 .. 9 : DigitChars[d + 1] = c

RECURSIVE ParseNat(_)
ParseNat(s) ==
    IF s = <<>> THEN 0
    ELSE ParseNat(SubSeq(s, 1, Len(s) - 1)) * 10 + DigitValue(s[Len(s)])

\* int(s): an optional sign and at least one decimal digit, else ValueError.
ParseInt(s) ==
    LET signed == s # <<>> /\ s[1] \in {"-", "+"}
        digits == IF signed THEN Tail(s) ELSE s
    IN  IF digits = <<>> \/ \E i \in 1 .. Len(digits) : ~IsDigit(digits[i])
        THEN [value |-> 0, error |-> "ValueError"]
        ELSE [value |-> IF signed /\ s[1] = "-" THEN -ParseNat(digits)
                        ELSE ParseNat(digits),
              error |-> ""]

unit_prefix == <<"u", "n", "i", "t", "_">>

player_prefix == <<"p", "l", "a", "y", "e", "r", "_">>

\* The legacy teams of a match, by agent name.
lux_teams ==
    [key \in {player_prefix \o FormatInt(0), player_prefix \o FormatInt(1)} |->
        [team_id |-> ParseInt(SubSeq(key, Len(player_prefix) + 1, Len(key))).value]]

\* UnitType.to_lux
UnitType_to_lux(unit_type) ==
    IF unit_type = LIGHT THEN [value |-> "LIGHT", error |-> ""]
    ELSE IF unit_type = HEAVY THEN [value |-> "HEAVY", error |-> ""]
    ELSE [value |-> "", error |-> "ValueError"]

\* UnitType.from_lux
UnitType_from_lux(lux_unit_type) ==
    IF lux_unit_type = "LIGHT" THEN [value |-> LIGHT, error |-> ""]
    ELSE IF lux_unit_type = "HEAVY" THEN [value |-> HEAVY, error |-> ""]
    ELSE [value |-> 0, error |-> "ValueError"]

\* The legacy forms of an action, a cargo and a position.
UnitAction_to_lux(act) ==
    <<act.action_type, act.direction, act.resource_type, act.amount, act.repeat>>

UnitAction_from_lux(a) ==
    [action_type |-> a[1], direction |-> a[2], resource_type |-> a[3],
     amount |-> a[4], repeat |-> a[5]]

UnitCargo_to_lux(cargo) ==
    [ice |-> cargo[ice], ore |-> cargo[ore], water |-> cargo[water],
     metal |-> cargo[metal]]

UnitCargo_from_lux(c) ==
    [r \in CargoResources |->
        CASE r = ice -> c.ice [] r = ore -> c.ore
          [] r = water -> c.water [] r = metal -> c.metal]

Position_to_lux(pos) == [x |-> pos[1], y |-> pos[2]]

Position_from_lux(p) == <<p.x, p.y>>

\* ActionQueue.to_lux: the queued entries, front to back.
ActionQueue_to_lux(q) ==
    [i \in 1 .. q.count |-> UnitAction_to_lux(QueueList(q)[i])]

RECURSIVE PushAll(_, _)
PushAll(q, l) ==
    IF l = <<>> THEN q
    ELSE PushAll(push_back(q, UnitAction_from_lux(Head(l))), Tail(l))

\* ActionQueue.from_lux: a list longer than the capacity is an error.
ActionQueue_from_lux(l) ==
    IF Len(l) > QueueCap
    THEN [queue |-> empty, error |-> "ValueError"]
    ELSE [queue |-> PushAll(empty, l), error |-> ""]

NoLux == [unit_id |-> <<>>]

\* Unit.new: lax.switch clamps unit_type; UnitType(unit_type) is called, and
\* raises on a value that is no member, only when unit_type is a Python int.
Unit_new(team_id, unit_type, python_int, unit_id) ==
    [unit |-> new(team_id, unit_type, unit_id),
     error |-> IF python_int /\ unit_type \notin UnitType
               THEN "ValueError" ELSE ""]

\* Unit.empty: a LIGHT unit with the default (unassigned) team and id.
Unit_empty ==
    [unit_type    |-> LIGHT,
     team_id      |-> INT32_MAX,
     unit_id      |-> INT32_MAX,
     pos          |-> Position,
     cargo        |-> UnitCargo,
     action_queue |-> empty,
     unit_cfg     |-> ROBOTS[LIGHT],
     power        |-> 0]

to_lux(u) ==
    LET key == player_prefix \o FormatInt(u.team_id)
        unit_type == UnitType_to_lux(u.unit_type)
    IN  IF key \notin DOMAIN lux_teams
        THEN [lux |-> NoLux, error |-> "KeyError"]
        ELSE IF unit_type.error # ""
        THEN [lux |-> NoLux, error |-> unit_type.error]
        ELSE [lux |-> [team         |-> lux_teams[key],
                       unit_type    |-> unit_type.value,
                       unit_id      |-> unit_prefix \o FormatInt(u.unit_id),
                       unit_cfg     |-> ROBOTS[u.unit_type],
                       pos          |-> Position_to_lux(u.pos),
                       cargo        |-> UnitCargo_to_lux(u.cargo),
                       power        |-> u.power,
                       action_queue |-> ActionQueue_to_lux(u.action_queue)],
              error |-> ""]

\* from_lux: the id is int() of the string after its first len('unit_')
\* characters, whatever they are.
from_lux(lux_unit) ==
    LET unit_id == ParseInt(SubSeq(lux_unit.unit_id, Len(unit_prefix) + 1,
                                   Len(lux_unit.unit_id)))
        unit_type == UnitType_from_lux(lux_unit.unit_type)
        action_queue == ActionQueue_from_lux(lux_unit.action_queue)
    IN  IF unit_id.error # "" THEN [unit |-> Unit_empty, error |-> unit_id.error]
        ELSE IF unit_type.error # ""
        THEN [unit |-> Unit_empty, error |-> unit_type.error]
        ELSE IF action_queue.error # ""
        THEN [unit |-> Unit_empty, error |-> action_queue.error]
        ELSE [unit |-> [unit_type    |-> unit_type.value,
                        team_id      |-> lux_unit.team.team_id,
                        unit_id      |-> unit_id.value,
                        pos          |-> Position_from_lux(lux_unit.pos),
                        cargo        |-> UnitCargo_from_lux(lux_unit.cargo),
                        action_queue |-> action_queue.queue,
                        unit_cfg     |-> lux_unit.unit_cfg,
                        power        |-> lux_unit.power],
              error |-> ""]

(***************************************************************************)
(* State.                                                                  *)
(*   unit   the unit's current value                                       *)
(*   op     the last call: its name, inputs and return value               *)
(*   fifo   history: the entries the driver queued, in order, under the    *)
(*          queue discipline of section 4.2 (what the ring buffer is       *)
(*          meant to hold)                                                 *)
(*   snap   history: the action queue as the driver last left it           *)
(*   ticks  history: the number of repeat_action(True) calls since snap    *)
(***************************************************************************)
VARIABLES unit, op, fifo, snap, ticks, population

vars == <<unit, op, fifo, snap, ticks, population>>

hist == <<fifo, snap, ticks>>

Amounts == (-MaxAmount) .. MaxAmount

\* power_gain_factor as numerator and denominator: -1, 0, 1/2, 1, 3/2.
PowerGainFactors == {<<-1, 1>>, <<0, 1>>, <<1, 2>>, <<1, 1>>, <<3, 2>>}

\* The resources the driver transfers.
Requested == {ice, ore, power}

\* The entries the driver queues.
Entries ==
    {[action_type |-> k, direction |-> 0, resource_type |-> 0, amount |-> 0,
      repeat |-> r] : k \in {MOVE, DIG}, r \in (-1) .. MaxRepeat}

MaxTicks == QueueCap * (MaxRepeat + 1)

\* Rubble at the target cell of a move.
Rubble == {0, 1, 2}

\* A call: its name, its inputs (resource, amount, success, factor), what it
\* returned (transfer, act, cost, heavy), and where its input came from
\* (origin: the call whose return value was passed on, or "driver").
Call(name) ==
    [name |-> name, resource |-> 0, amount |-> 0, success |-> FALSE,
     transfer |-> 0, act |-> do_nothing, factor |-> <<0, 1>>,
     cost |-> 0, heavy |-> FALSE, origin |-> "driver",
     unit_type |-> 0, python_int |-> FALSE, lux |-> NoLux, error |-> "",
     unit_id |-> -1]

\* The part of the state space explored: power and cargo up to MaxAmount
\* outside their ranges.
Explored(u) ==
    /\ u.power >= -MaxAmount
    /\ u.power <= battery_capacity(u) + MaxAmount
    /\ \A r \in CargoResources :
           /\ u.cargo[r] >= -MaxAmount
           /\ u.cargo[r] <= cargo_space(u) + MaxAmount

\* The units the driver spawns: (team_id, unit_type, unit_id).
Spawned == {<<0, LIGHT, 0>>, <<1, HEAVY, 5>>}

\* A per-tick call on one unit of a population, and the unit it returns.
PerTick(u, c) ==
    CASE c.name = "repeat_action" -> repeat_action(u, c.success)
      [] c.name = "add_resource" -> add_resource(u, c.resource, c.amount).unit
      [] c.name = "sub_resource" -> sub_resource(u, c.resource, c.amount).unit
      [] c.name = "gain_power" -> gain_power(u, c.factor)

\* A variant of Operate_on that also hands the new cargo and power to every
\* unit of the same team.
Operate_on_team(units, unit_id, c) ==
    LET after == PerTick(units[unit_id], c)
    IN  [i \in DOMAIN units |->
            IF i = unit_id THEN after
            ELSE IF units[i].team_id = after.team_id
            THEN [units[i] EXCEPT !.cargo = after.cargo, !.power = after.power]
            ELSE units[i]]

\* The driver keeps the unit a call returns in the place of the unit it was
\* called on.
Operate_on(units, unit_id, c) ==
    [units EXCEPT ![unit_id] = PerTick(units[unit_id], c)]

RECURSIVE RunAlone(_, _)
RunAlone(u, calls) ==
    IF calls = <<>> THEN u ELSE RunAlone(PerTick(u, Head(calls)), Tail(calls))

\* The population: the units spawned, by unit_id, each with two entries
\* queued, and the calls made on each so far.
PopSpawned == {<<0, LIGHT, 0>>, <<1, HEAVY, 5>>, <<1, LIGHT, 6>>}

PopIds == {s[3] : s \in PopSpawned}

StartUnit(unit_id) ==
    LET s == CHOOSE x \in PopSpawned : x[3] = unit_id
        e == [do_nothing EXCEPT !.action_type = MOVE]
    IN  [new(s[1], s[2], s[3]) EXCEPT !.action_queue =
            push_back(push_back(@, [e EXCEPT !.repeat = 1]),
                      [e EXCEPT !.repeat = -1])]

Started ==
    [units |-> [i \in PopIds |-> StartUnit(i)],
     calls |-> [i \in PopIds |-> <<>>]]

RECURSIVE CallsMade(_, _)
CallsMade(calls, ids) ==
    IF ids = {} THEN 0
    ELSE LET i == CHOOSE x \in ids : TRUE
         IN  Len(calls[i]) + CallsMade(calls, ids \ {i})

\* No population: the specifications of one unit.
Unpopulated == [units |-> <<>>, calls |-> <<>>]

PopCalls ==
    {[Call("repeat_action") EXCEPT !.success = TRUE],
     [Call("add_resource") EXCEPT !.resource = ore, !.amount = 1],
     [Call("sub_resource") EXCEPT !.resource = power, !.amount = MaxAmount],
     [Call("gain_power") EXCEPT !.factor = <<1, 2>>]}

Init ==
    /\ \E a \in Spawned : unit = new(a[1], a[2], a[3])
    /\ op = Call("new")
    /\ fifo = <<>>
    /\ snap = empty
    /\ ticks = 0
    /\ population = Unpopulated

InitQueue ==
    /\ unit = new(0, LIGHT, 0)
    /\ op = Call("new")
    /\ fifo = <<>>
    /\ snap = empty
    /\ ticks = 0
    /\ population = Unpopulated

(***************************************************************************)
(* The queue discipline of section 4.2 on a plain list.                    *)
(***************************************************************************)
FifoPush(l, e) == IF Len(l) < QueueCap THEN Append(l, e) ELSE l

FifoRequeue(l) ==
    IF l = <<>> THEN l
    ELSE IF Head(l).repeat > 0 THEN [l EXCEPT ![1].repeat = @ - 1]
    ELSE IF Head(l).repeat < 0 THEN Append(Tail(l), Head(l))
    ELSE Tail(l)

(***************************************************************************)
(* Actions: one per operation.                                             *)
(***************************************************************************)
NextAction ==
    /\ op' = [Call("next_action") EXCEPT !.act = next_action(unit)]
    /\ UNCHANGED <<unit, hist, population>>

Repeat(success) ==
    /\ unit' = repeat_action(unit, success)
    /\ op' = [Call("repeat_action") EXCEPT !.success = success]

RepeatAction ==
    /\ \E success \in BOOLEAN : Repeat(success)
    /\ UNCHANGED <<hist, population>>

AddResource ==
    \E resource \in Requested, amount \in Amounts :
        LET r == add_resource(unit, resource, amount)
        IN  /\ Explored(r.unit)
            /\ unit' = r.unit
            /\ op' = [Call("add_resource") EXCEPT !.resource = resource,
                                                  !.amount = amount,
                                                  !.transfer = r.transfer]
            /\ UNCHANGED <<hist, population>>

SubResource ==
    \E resource \in Requested, amount \in Amounts :
        LET r == sub_resource(unit, resource, amount)
        IN  /\ Explored(r.unit)
            /\ unit' = r.unit
            /\ op' = [Call("sub_resource") EXCEPT !.resource = resource,
                                                  !.amount = amount,
                                                  !.transfer = r.transfer]
            /\ UNCHANGED <<hist, population>>

GainPower ==
    \E f \in PowerGainFactors :
        /\ Explored(gain_power(unit, f))
        /\ unit' = gain_power(unit, f)
        /\ op' = [Call("gain_power") EXCEPT !.factor = f]
        /\ UNCHANGED <<hist, population>>

\* The driver returns to the unit the power a sub_resource call took out:
\* add_resource(power, transfer).
AddBack ==
    /\ op.name = "sub_resource"
    /\ op.resource = power
    /\ LET r == add_resource(unit, power, op.transfer)
       IN  /\ Explored(r.unit)
           /\ unit' = r.unit
           /\ op' = [Call("add_resource") EXCEPT !.resource = power,
                                                 !.amount = op.transfer,
                                                 !.transfer = r.transfer,
                                                 !.origin = "sub_resource"]
    /\ UNCHANGED <<hist, population>>

IsHeavy ==
    /\ op' = [Call("is_heavy") EXCEPT !.heavy = is_heavy(unit)]
    /\ UNCHANGED <<unit, hist, population>>

MovePowerCost ==
    \E rubble_at_target \in Rubble :
        /\ op' = [Call("move_power_cost") EXCEPT
                      !.amount = rubble_at_target,
                      !.cost = move_power_cost(unit, rubble_at_target)]
        /\ UNCHANGED <<unit, hist, population>>

\* The driver queues an entry.
PushBack ==
    \E act \in Entries :
        /\ unit' = [unit EXCEPT !.action_queue = push_back(@, act)]
        /\ op' = [Call("push_back") EXCEPT !.act = act]
        /\ fifo' = FifoPush(fifo, act)
        /\ snap' = unit'.action_queue
        /\ ticks' = 0
        /\ UNCHANGED population

\* One tick of the driver: repeat_action(success).
Tick ==
    \E success \in BOOLEAN :
        /\ success => ticks < MaxTicks
        /\ Repeat(success)
        /\ fifo' = IF success THEN FifoRequeue(fifo) ELSE fifo
        /\ ticks' = IF success THEN ticks + 1 ELSE ticks
        /\ UNCHANGED <<snap, population>>

\* The units the interchange starts from: spawned by new, charged and loaded
\* or not, with k entries queued and consumed and then the entries of l queued.
LuxSpawned == {<<0, LIGHT, 7>>, <<1, HEAVY, 12>>}

LuxEntries == {e \in Entries : e.repeat \in {-1, MaxRepeat}}

LuxLists == UNION {[1 .. n -> LuxEntries] : n \in 0 .. QueueCap}

RECURSIVE Advance(_, _)
Advance(u, k) ==
    IF k = 0 THEN u
    ELSE Advance(repeat_action(
                     [u EXCEPT !.action_queue =
                         push_back(@, [do_nothing EXCEPT !.action_type = DIG])],
                     TRUE), k - 1)

RECURSIVE Fill(_, _)
Fill(u, l) ==
    IF l = <<>> THEN u
    ELSE Fill([u EXCEPT !.action_queue = push_back(@, Head(l))], Tail(l))

LuxUnits ==
    {Fill(Advance(IF stocked
                  THEN add_resource(gain_power(new(s[1], s[2], s[3]), <<1, 1>>),
                                    ore, 1).unit
                  ELSE new(s[1], s[2], s[3]), k), l) :
        s \in LuxSpawned, stocked \in BOOLEAN, k \in Slots, l \in LuxLists}

InitLux ==
    /\ unit \in LuxUnits \cup {Unit_empty}
    /\ op = Call("init")
    /\ fifo = <<>>
    /\ snap = empty
    /\ ticks = 0
    /\ population = Unpopulated

\* The class values handed to Unit.new, as a Python int or as an array.
ClassValues == {-1, LIGHT, HEAVY, 2}

New ==
    \E s \in LuxSpawned, unit_type \in ClassValues, python_int \in BOOLEAN :
        LET r == Unit_new(s[1], unit_type, python_int, s[3])
        IN  /\ unit' = IF r.error = "" THEN r.unit ELSE unit
            /\ op' = [Call("new") EXCEPT !.unit_type = unit_type,
                                         !.python_int = python_int,
                                         !.error = r.error]
            /\ UNCHANGED <<hist, population>>

ToLux ==
    LET r == to_lux(unit)
    IN  /\ op' = [Call("to_lux") EXCEPT !.lux = r.lux, !.error = r.error]
        /\ UNCHANGED <<unit, hist, population>>

\* from_lux of the legacy unit that to_lux has just returned.
FromLux ==
    /\ op.name = "to_lux"
    /\ op.error = ""
    /\ LET r == from_lux(op.lux)
       IN  /\ unit' = IF r.error = "" THEN r.unit ELSE unit
           /\ op' = [Call("from_lux") EXCEPT !.lux = op.lux, !.error = r.error,
                                             !.origin = "to_lux"]
    /\ UNCHANGED <<hist, population>>

\* The id strings of the legacy units a caller hands to from_lux.
LegacyIds ==
    {unit_prefix \o <<"7">>, unit_prefix \o <<"x">>,
     <<"r", "o", "b", "o", "t", "7">>, <<"7">>, <<"u", "n", "i", "t", "7">>}

Legacy(id, t, n) ==
    [team         |-> lux_teams[player_prefix \o FormatInt(0)],
     unit_type    |-> t,
     unit_id      |-> id,
     unit_cfg     |-> ROBOTS[LIGHT],
     pos          |-> Position_to_lux(Position),
     cargo        |-> UnitCargo_to_lux(UnitCargo),
     power        |-> 1,
     action_queue |-> [i \in 1 .. n |-> UnitAction_to_lux(do_nothing)]]

LegacyInputs ==
    {Legacy(id, "LIGHT", 0) : id \in LegacyIds}
        \cup {Legacy(unit_prefix \o <<"7">>, "OTHER", 0),
              Legacy(unit_prefix \o <<"7">>, "LIGHT", QueueCap + 1)}

\* from_lux of a legacy unit the caller supplies.
Import ==
    \E lux_unit \in LegacyInputs :
        LET r == from_lux(lux_unit)
        IN  /\ unit' = IF r.error = "" THEN r.unit ELSE unit
            /\ op' = [Call("from_lux") EXCEPT !.lux = lux_unit, !.error = r.error]
            /\ UNCHANGED <<hist, population>>

\* The driver makes one per-tick call on one unit of the population.
Operate ==
    \E unit_id \in PopIds, c \in PopCalls :
        /\ CallsMade(population.calls, PopIds) < MaxCalls
        /\ population' =
               [units |-> Operate_on(population.units, unit_id, c),
                calls |-> [population.calls EXCEPT ![unit_id] = Append(@, c)]]
        /\ op' = [c EXCEPT !.unit_id = unit_id]
        /\ UNCHANGED <<unit, hist>>

Next ==
    \/ NextAction
    \/ RepeatAction
    \/ AddResource
    \/ SubResource
    \/ AddBack
    \/ GainPower
    \/ IsHeavy
    \/ MovePowerCost

Spec == Init /\ [][Next]_vars

NextQueue == PushBack \/ Tick \/ NextAction

SpecQueue == InitQueue /\ [][NextQueue]_vars

NextLux == New \/ ToLux \/ FromLux \/ Import

SpecLux == InitLux /\ [][NextLux]_vars

NextPop == Operate

InitPop ==
    /\ unit = new(0, LIGHT, 0)
    /\ op = Call("new")
    /\ fifo = <<>>
    /\ snap = empty
    /\ ticks = 0
    /\ population = Started

SpecPop == InitPop /\ [][NextPop]_vars

(***************************************************************************)
(* Properties.                                                             *)
(***************************************************************************)
Queue == unit.action_queue

\* The last call was repeat_action(True).
Succeeded(o) == o.name = "repeat_action" /\ o.success

\* l rotated left by k places.
Rotate(l, k) ==
    [i \in 1 .. Len(l) |-> l[((i - 1 + k) % Len(l)) + 1]]

AllNegative(l) == \A i \in 1 .. Len(l) : l[i].repeat < 0

\* C1: after any sequence of add_resource, sub_resource, gain_power and
\* repeat_action on a unit made by Unit.new, 0 <= power <= battery_capacity.
C1_PowerWithinBattery ==
    /\ 0 <= unit.power
    /\ unit.power <= battery_capacity(unit)

\* C2: after any sequence of add_resource and sub_resource on cargo resources,
\* every cargo amount is >= 0 and their sum is <= cargo_space.
C2_CargoWithinSpace ==
    /\ \A r \in CargoResources : unit.cargo[r] >= 0
    /\ TotalCargo(unit.cargo) <= cargo_space(unit)

\* C3: after any sequence of repeat_action calls the queue has
\* count <= capacity and 0 <= front < capacity, and when count > 0 the front
\* index points at a queued entry: the oldest entry still queued.
C3_QueueWellFormed ==
    /\ Queue.count >= 0
    /\ Queue.count <= QueueCap
    /\ Queue.front >= 0
    /\ Queue.front < QueueCap
    /\ Queue.count > 0 => (fifo # <<>> /\ Queue.data[Queue.front] = Head(fifo))

C3_Witness ==
    /\ Succeeded(op)
    /\ Queue.count = QueueCap
    /\ Queue.front = QueueCap - 1
    /\ ticks >= 2

\* C4: repeat_action(False) returns the unit it was given, whatever the queue
\* holds: every field, the queue's data, front and count included.
C4_FailureIsNoOp ==
    [][(op'.name = "repeat_action" /\ ~op'.success) => unit' = unit]_vars

C4_Witness ==
    /\ op.name = "repeat_action"
    /\ ~op.success
    /\ Queue.count = QueueCap
    /\ Queue.front # 0
    /\ Queue.data[Queue.front].repeat < 0

\* C5: from a queue whose front entry has repeat r > 0, the first r calls of
\* repeat_action(True) each decrement that entry's repeat and leave it at the
\* front (front and count unchanged); call r + 1 pops it and does not requeue
\* it (count is one less, the other entries keep their order).
C5_DecrementThenPop ==
    LET r == snap.data[snap.front].repeat
    IN  (snap.count > 0 /\ r > 0) =>
            /\ ticks <= r =>
                   Queue = [snap EXCEPT !.data[snap.front].repeat = r - ticks]
            /\ ticks = r + 1 =>
                   /\ Queue.count = snap.count - 1
                   /\ Queue.front = (snap.front + 1) % QueueCap
                   /\ QueueList(Queue) = Tail(QueueList(snap))

C5_Witness ==
    /\ Succeeded(op)
    /\ snap.count = QueueCap
    /\ snap.front # 0
    /\ snap.data[snap.front].repeat = MaxRepeat
    /\ ticks = MaxRepeat + 1

\* C6: on a non-empty queue, full ones included, whose front entry has
\* repeat < 0, repeat_action(True) moves the front entry, unmodified, to the
\* back: count is unchanged and no entry is lost.
C6_NegativeRequeues ==
    [][(Succeeded(op') /\ Queue.count > 0 /\ Queue.data[Queue.front].repeat < 0) =>
           /\ Queue'.count = Queue.count
           /\ QueueList(Queue') =
                  Append(Tail(QueueList(Queue)), Queue.data[Queue.front])]_vars

C6_Witness ==
    /\ Succeeded(op)
    /\ snap.count = QueueCap
    /\ snap.data[snap.front].repeat < 0
    /\ ticks = 1
    /\ Queue.count = QueueCap

\* C7: in a queue of N entries that all have negative repeat, count is
\* unchanged after every repeat_action(True), the entries rotate by one place
\* per call, and after N calls the original front entry is at the front again
\* with the original order.
C7_NegativesCycle ==
    LET l == QueueList(snap)
    IN  (snap.count > 0 /\ AllNegative(l)) =>
            /\ Queue.count = snap.count
            /\ QueueList(Queue) = Rotate(l, ticks % snap.count)
            /\ ticks = snap.count => QueueList(Queue) = l

C7_Witness ==
    /\ Succeeded(op)
    /\ snap.count = QueueCap
    /\ AllNegative(QueueList(snap))
    /\ QueueList(snap)[1] # QueueList(snap)[2]
    /\ ticks = QueueCap

EntryA == [action_type |-> MOVE, direction |-> 0, resource_type |-> 0,
           amount |-> 0, repeat |-> 0]

EntryB == [action_type |-> DIG, direction |-> 0, resource_type |-> 0,
           amount |-> 0, repeat |-> -1]

C8_Step ==
    (Succeeded(op') /\ Queue.count > 0 /\ Queue.data[Queue.front].repeat = 0) =>
        /\ Queue'.count = Queue.count - 1
        /\ Queue'.front = (Queue.front + 1) % QueueCap
        /\ QueueList(Queue') = Tail(QueueList(Queue))
        /\ next_action(unit') =
               IF Queue.count > 1 THEN QueueList(Queue)[2] ELSE do_nothing

C8_Example ==
    (QueueList(snap) = <<EntryA, EntryB>> /\ ticks >= 1) =>
        /\ QueueList(Queue) = <<EntryB>>
        /\ Queue.count = 1

\* C8: when the front entry has repeat = 0, repeat_action(True) pops and
\* discards it: count is one less, front advances by one modulo capacity, the
\* next queued entry is what next_action returns, and the entry is gone for
\* good; the queue [A(repeat = 0), B(repeat = -1)] is [B] after one success
\* and after every further one.
C8_ZeroIsConsumed == [][C8_Step]_vars /\ []C8_Example

C8_Witness ==
    /\ Succeeded(op)
    /\ QueueList(snap) = <<EntryA, EntryB>>
    /\ ticks = 3
    /\ next_action(unit) = EntryB

C9_Step ==
    /\ op'.name = "next_action" =>
           /\ unit' = unit
           /\ op'.act = IF Queue.count > 0
                        THEN Queue.data[Queue.front]
                        ELSE do_nothing
    /\ (Succeeded(op') /\ Queue.count = 0) =>
           /\ unit' = unit
           /\ Queue'.count = 0

\* C9: next_action leaves the unit as it is and returns the entry in the front
\* slot when count > 0; when count = 0, whatever the slots hold, it returns the
\* do-nothing entry, and repeat_action(True) leaves the unit unchanged with
\* count 0.
C9_NextActionPeeks == [][C9_Step]_vars

C9_Witness ==
    /\ op.name = "next_action"
    /\ op.act = do_nothing
    /\ Queue.count = 0
    /\ Queue.data[Queue.front] # do_nothing
    /\ ticks > 0

\* The design document's scenario: battery_capacity = 150, power = 100.
ExampleUnit ==
    [new(0, LIGHT, 0) EXCEPT !.unit_cfg.BATTERY_CAPACITY = 150, !.power = 100]

C10_Step ==
    (op'.name = "add_resource" /\ op'.resource = power) =>
        LET amount == Max(op'.amount, 0)
            transfer == Min(battery_capacity(unit) - unit.power, amount)
        IN  /\ op'.transfer = transfer
            /\ unit'.power = unit.power + transfer
            /\ op'.amount <= 0 => (op'.transfer = 0 /\ unit'.power = unit.power)

\* C10: add_resource(power, amount) clamps amount to >= 0, returns
\* transfer = min(battery_capacity - power, amount) and a unit with
\* power + transfer; battery_capacity = 150, power = 100, amount = 80 gives
\* power 150 and transfer 50; an amount <= 0 gives transfer 0 and leaves power
\* unchanged.
C10_AddPower ==
    /\ add_resource(ExampleUnit, power, 80).transfer = 50
    /\ add_resource(ExampleUnit, power, 80).unit.power = 150
    /\ [][C10_Step]_vars

\* 0 <= power <= battery_capacity.
ValidPower(u) == 0 <= u.power /\ u.power <= battery_capacity(u)

\* What the unit holds of a resource.
Available(u, resource) ==
    IF resource = power THEN u.power ELSE u.cargo[resource]

C11_Step ==
    op'.name = "sub_resource" =>
        LET available == Available(unit, op'.resource)
            left == Available(unit', op'.resource)
        IN  /\ op'.transfer =
                   IF available < op'.amount THEN available ELSE op'.amount
            /\ left = available - op'.transfer
            /\ op'.amount > available => (op'.transfer = available /\ left = 0)

\* C11: sub_resource(resource, amount) returns transfer = min(available,
\* amount), available being the power or the cargo amount of that resource,
\* and a unit that holds available - transfer of it; a request above what is
\* available is truncated to it.
C11_SubTruncates == [][C11_Step]_vars

C11_Witness ==
    /\ op.name = "sub_resource"
    /\ op.resource = power
    /\ op.transfer > 0
    /\ op.amount > op.transfer
    /\ unit.power = 0

C12_Step ==
    /\ (/\ op'.name = "sub_resource"
        /\ op'.resource = power
        /\ op'.amount >= 0
        /\ ValidPower(unit)) => ValidPower(unit')
    /\ (/\ op.name = "sub_resource"
        /\ op.resource = power
        /\ op.amount >= 0
        /\ 0 <= unit.power + op.transfer
        /\ unit.power + op.transfer <= battery_capacity(unit)
        /\ op'.name = "add_resource"
        /\ op'.origin = "sub_resource") => ValidPower(unit')

\* C12: from a power in 0..battery_capacity and an amount >= 0,
\* sub_resource(power, amount) returning t and then add_resource(power, t)
\* leave power in 0..battery_capacity after either call.
C12_SubThenAdd == [][C12_Step]_vars

C12_Witness ==
    /\ op.name = "add_resource"
    /\ op.origin = "sub_resource"
    /\ op.amount > 0
    /\ op.transfer = op.amount
    /\ unit.power = battery_capacity(unit)

\* The least integer n with n >= c * f[1] / f[2].
CeilOfProduct(c, f) ==
    LET k == (IF c * f[1] < 0 THEN -(c * f[1]) ELSE c * f[1]) + 1
    IN  CHOOSE n \in (-k) .. k :
            /\ n * f[2] >= c * f[1]
            /\ (n - 1) * f[2] < c * f[1]

C13_Step ==
    op'.name = "gain_power" =>
        LET gained == CeilOfProduct(unit.unit_cfg.CHARGE, op'.factor)
            sum == unit.power + gained
            capacity == battery_capacity(unit)
        IN  unit' = [unit EXCEPT !.power =
                                     IF capacity < sum THEN capacity ELSE sum]

\* C13: gain_power(factor) returns the unit with
\* power = min(battery_capacity, power + ceil(charge_rate * factor)), the
\* gain rounded up before it is added and clamped, and nothing else changed.
C13_GainRoundsUp == [][C13_Step]_vars

C13_Witness ==
    /\ op.name = "gain_power"
    /\ op.factor = <<1, 2>>
    /\ unit.unit_type = HEAVY
    /\ unit.power = 3

C14_Step ==
    /\ unit'.unit_id = unit.unit_id
    /\ unit'.team_id = unit.team_id
    /\ unit'.unit_type = unit.unit_type
    /\ unit'.unit_cfg = unit.unit_cfg

AllNonNegative(l) == \A i \in 1 .. Len(l) : l[i].repeat >= 0

\* The number of successful ticks a list of entries with repeat >= 0 takes.
RECURSIVE TicksToDrain(_)
TicksToDrain(l) ==
    IF l = <<>> THEN 0 ELSE Head(l).repeat + 1 + TicksToDrain(Tail(l))

\* The entry due after t successful ticks: the entries in order, each for
\* repeat + 1 ticks, its counter one less every tick.
RECURSIVE DueAt(_, _)
DueAt(l, t) ==
    IF l = <<>> THEN do_nothing
    ELSE IF t <= Head(l).repeat THEN [Head(l) EXCEPT !.repeat = @ - t]
    ELSE DueAt(Tail(l), t - Head(l).repeat - 1)

\* C19: when every queued entry has repeat >= 0 and every tick succeeds,
\* next_action returns the entries in FIFO order, an entry of repeat r on
\* r + 1 consecutive ticks, and count is 0 after exactly the sum of (r + 1)
\* calls of repeat_action(True), not before.
C19_QueueDrains ==
    LET l == QueueList(snap)
    IN  (snap.count > 0 /\ AllNonNegative(l)) =>
            /\ next_action(unit) = DueAt(l, ticks)
            /\ ticks < TicksToDrain(l) => Queue.count > 0
            /\ ticks >= TicksToDrain(l) => Queue.count = 0

C19_Witness ==
    /\ Succeeded(op)
    /\ snap.count = QueueCap
    /\ snap.front # 0
    /\ \A i \in 1 .. QueueCap : QueueList(snap)[i].repeat = MaxRepeat
    /\ ticks = MaxTicks
    /\ Queue.count = 0

C20_Step ==
    op'.name = "repeat_action" =>
        LET before == QueueList(Queue)
            after == QueueList(Queue')
        IN  IF op'.success /\ Queue.count > 0 /\ before[1].repeat > 0
            THEN /\ after = [before EXCEPT ![1].repeat = @ - 1]
                 /\ after[1].repeat >= 0
            ELSE \A i \in 1 .. Len(after) :
                     \E j \in 1 .. Len(before) : after[i] = before[j]

\* C20: repeat_action changes a queued entry's repeat only by taking 1 off the
\* front entry's when it is > 0, so no repeat goes from >= 0 to < 0, and an
\* entry queued with a negative repeat keeps it while it is queued.
C20_RepeatOnlyDecrements == [][C20_Step]_vars

C20_Witness ==
    /\ Succeeded(op)
    /\ snap.count = QueueCap
    /\ snap.data[snap.front].repeat = 1
    /\ ticks = 1
    /\ Queue.data[Queue.front].repeat = 0
    /\ \E i \in 1 .. Queue.count : QueueList(Queue)[i].repeat < 0

HasUnitPrefix(id) ==
    /\ Len(id) >= Len(unit_prefix)
    /\ SubSeq(id, 1, Len(unit_prefix)) = unit_prefix

SameFields(u, v) ==
    /\ u.unit_id = v.unit_id
    /\ u.team_id = v.team_id
    /\ u.unit_type = v.unit_type
    /\ u.pos = v.pos
    /\ u.cargo = v.cargo
    /\ u.power = v.power
    /\ QueueList(u.action_queue) = QueueList(v.action_queue)

C15_Step ==
    /\ op'.name = "to_lux" => op'.error = ""
    /\ (op'.name = "from_lux" /\ op'.origin = "to_lux") =>
           (op'.error = "" /\ SameFields(unit', unit))

\* C15: to_lux of any unit the program can hold, then from_lux of the result,
\* gives a unit with the same unit_id, team_id, class, position, cargo and
\* power and the same queue entries from front to back, wherever the
\* queue's front index is.
C15_RoundTrip == [][C15_Step]_vars

\* The round trip of the units that new makes of a class value in UnitType
\* and a team of lux_teams.
RoundTripOfSpawned ==
    [][(unit.unit_type \in UnitType /\ unit.team_id \in {0, 1}) => C15_Step]_vars

RoundTripWitness ==
    /\ op.name = "from_lux"
    /\ op.origin = "to_lux"
    /\ Queue.count = QueueCap
    /\ unit.unit_id = 12
    /\ Len(op.lux.unit_id) = 7
    /\ \E i \in 1 .. QueueCap : op.lux.action_queue[i] # op.lux.action_queue[1]

C16_Step ==
    op'.name = "new" =>
        IF op'.unit_type \in UnitType
        THEN /\ op'.error = ""
             /\ unit'.unit_type = op'.unit_type
             /\ unit'.unit_cfg = ROBOTS[op'.unit_type]
             /\ unit'.power = ROBOTS[op'.unit_type].INIT_POWER
             /\ unit'.cargo = UnitCargo
             /\ unit'.action_queue.count = 0
             /\ unit'.pos = Position
        ELSE /\ op'.error # ""
             /\ unit' = unit

\* C16: Unit.new of a class value other than LIGHT (0) and HEAVY (1) raises
\* and returns no unit; of LIGHT or HEAVY it never raises and returns a unit
\* of that class with its config, its initial power, an empty cargo, an
\* empty queue and the origin as position.
C16_NewChecksClass == [][C16_Step]_vars

C17_Step ==
    (op'.name = "from_lux" /\ ~HasUnitPrefix(op'.lux.unit_id)) =>
        (op'.error # "" /\ unit' = unit)

\* C17: from_lux of a legacy unit whose id does not start with "unit_"
\* raises, and no Unit is made of such an id.
C17_PrefixChecked == [][C17_Step]_vars

C18_Step ==
    op'.unit_id \in PopIds =>
        \A i \in PopIds \ {op'.unit_id} : population'.units[i] = population.units[i]

====
